---- MODULE Spec2Model ----
(***************************************************************************)
(* Model of polyst.py: RotowireScraper.fetch_injuries (fetch, parse and    *)
(* extract the injury report of one league page) and                       *)
(* TheEdgeSystem.scan_live_web (store the report, print the alerts).       *)
(*                                                                         *)
(* Text is a sequence of one-character strings, so that strip(), upper(),  *)
(* the f-string formatting and the substring test are computed.  A parsed  *)
(* page is a sequence of element nodes in document order, each with its    *)
(* tag, its set of classes, the index of its parent (0 for the root) and   *)
(* the text it directly holds.                                             *)
(***************************************************************************)
EXTENDS Integers, Sequences, FiniteSets, TLC

\* ------------------------------------------------------------------ bounds
\* Containers per page when one call of fetch_injuries is explored.
MaxBoxes == 2
\* Containers per page when a session of several scans is explored.
MaxPageBoxes == 1
\* Calls of scan_live_web in one session (the entry point makes two).
MaxScans == 3

\* -------------------------------------------------------------------- text
Lower == <<"a","b","c","d","e","f","g","h","i","j","k","l","m",
           "n","o","p","q","r","s","t","u","v","w","x","y","z">>
Capital == <<"A","B","C","D","E","F","G","H","I","J","K","L","M",
             "N","O","P","Q","R","S","T","U","V","W","X","Y","Z">>
Whitespace == {" ", "\n", "\t"}

\* str.upper() on one character
UpChar(c) ==
    IF \E k \in 1..Len(Lower) : Lower[k] = c
    THEN Capital[CHOOSE k \in 1..Len(Lower) : Lower[k] = c]
    ELSE c

\* str.upper()
upper(s) == [k \in 1..Len(s) |-> UpChar(s[k])]

RECURSIVE lstrip(_)
lstrip(s) ==
    IF s # <<>> /\ Head(s) \in Whitespace THEN lstrip(Tail(s)) ELSE s

RECURSIVE rstrip(_)
rstrip(s) ==
    IF s # <<>> /\ s[Len(s)] \in Whitespace
    THEN rstrip(SubSeq(s, 1, Len(s) - 1))
    ELSE s

\* str.strip()
strip(s) == rstrip(lstrip(s))

\* sub in s
Contains(sub, s) ==
    \E k \in 0..(Len(s) - Len(sub)) : SubSeq(s, k + 1, k + Len(sub)) = sub

\* the literals of the program
OUT == <<"O","U","T">>
GTD == <<"G","T","D">>
DOUBTFUL == <<"D","O","U","B","T","F","U","L">>
Unknown == <<"U","n","k","n","o","w","n">>
UnknownMatchup ==
    <<"U","n","k","n","o","w","n"," ","M","a","t","c","h","u","p">>
NBA == <<"N","B","A">>
NHL == <<"N","H","L">>

\* ---------------------------------------------------------- document tree
Node(tag, class, parent, string) ==
    [tag |-> tag, class |-> class, parent |-> parent, string |-> string]

\* the ancestors of element n, nearest first
RECURSIVE Ancestors(_, _)
Ancestors(d, n) ==
    IF d[n].parent = 0 THEN <<>>
    ELSE <<d[n].parent>> \o Ancestors(d, d[n].parent)

IsDescendant(d, m, n) ==
    \E k \in 1..Len(Ancestors(d, m)) : Ancestors(d, m)[k] = n

Indices(d) == [k \in 1..Len(d) |-> k]

\* Tag.find_all(tag, class_=classes): the descendants of n, in document
\* order, with that tag and at least one of the classes (any class when
\* classes is empty)
find_all(d, n, tag, classes) ==
    SelectSeq(Indices(d),
              LAMBDA m : /\ IsDescendant(d, m, n)
                         /\ d[m].tag = tag
                         /\ (classes = {} \/ d[m].class \cap classes # {}))

\* Tag.find(tag): the first such descendant, 0 for None
find(d, n, tag) ==
    IF find_all(d, n, tag, {}) = <<>> THEN 0 ELSE find_all(d, n, tag, {})[1]

\* Tag.find_parent(tag): the nearest ancestor with that tag, 0 for None
find_parent(d, n, tag) ==
    LET hits == SelectSeq(Ancestors(d, n), LAMBDA m : d[m].tag = tag)
    IN  IF hits = <<>> THEN 0 ELSE hits[1]

\* Tag.text: the strings of the element and of its descendants, joined in
\* document order
RECURSIVE JoinFrom(_, _, _)
JoinFrom(d, n, m) ==
    IF m > Len(d) THEN <<>>
    ELSE (IF m = n \/ IsDescendant(d, m, n) THEN d[m].string ELSE <<>>)
         \o JoinFrom(d, n, m + 1)

text(d, n) == JoinFrom(d, n, n)

\* ------------------------------------------------------- the program's data
\* self.urls (a missing key gives None, modelled as the empty string)
NbaUrl == "https://www.rotowire.com/basketball/nba-lineups.php"
NhlUrl == "https://www.rotowire.com/hockey/nhl-lineups.php"
Urls == {NbaUrl, NhlUrl}

urls_get(key) ==
    IF key = NBA THEN NbaUrl ELSE IF key = NHL THEN NhlUrl ELSE ""

\* the status code fetch_injuries accepts
StatusOK == 200

\* the statuses that qualify
StatusSet == {OUT, GTD, DOUBTFUL}

\* soup.find_all("div", class_="lineup__box")
find_boxes(d) == find_all(d, 1, "div", {"lineup__box"})

\* faulty variant of team_divs: the secondary selector is added whenever
\* the primary finds fewer than two elements
team_divs_mixed(d, box) ==
    IF Len(find_all(d, box, "a", {"lineup__team"})) < 2
    THEN find_all(d, box, "a", {"lineup__team"})
         \o find_all(d, box, "div", {"lineup__team-abbr"})
    ELSE find_all(d, box, "a", {"lineup__team"})

\* the team elements of a container: the primary selector, and the
\* secondary one when the primary finds nothing
team_divs(d, box) ==
    IF find_all(d, box, "a", {"lineup__team"}) = <<>>
    THEN find_all(d, box, "div", {"lineup__team-abbr"})
    ELSE find_all(d, box, "a", {"lineup__team"})

\* teams: the stripped text of every team element, in order
teams_of(d, box) ==
    [k \in 1..Len(team_divs(d, box)) |-> strip(text(d, team_divs(d, box)[k]))]

\* the status elements of a container
status_tags(d, box) ==
    find_all(d, box, "span", {"lineup__injuries-status", "lineup__status"})

\* faulty variant of status_text: the text is not uppercased
status_text_raw(d, tag) == strip(text(d, tag))

\* status_text = status_tag.text.strip().upper()
status_text(d, tag) == upper(strip(text(d, tag)))

\* faulty variant of player_node: the block ancestor is tried first
player_node_block_first(d, tag) ==
    IF find_parent(d, tag, "div") # 0 THEN find_parent(d, tag, "div")
    ELSE find_parent(d, tag, "li")

\* player_node: the list-item ancestor, or else the block ancestor
player_node(d, tag) ==
    IF find_parent(d, tag, "li") # 0 THEN find_parent(d, tag, "li")
    ELSE find_parent(d, tag, "div")

\* player_name
player_name(d, node) ==
    IF find(d, node, "a") # 0 THEN strip(text(d, find(d, node, "a")))
    ELSE Unknown

\* f"{player_name} ({status_text})"
descriptor(name, status) == name \o <<" ", "(">> \o status \o <<")">>

\* injured_players after the status elements from the k-th on are handled
RECURSIVE collect(_, _, _, _)
collect(d, tags, k, acc) ==
    IF k > Len(tags) THEN acc
    ELSE collect(d, tags, k + 1,
             IF status_text(d, tags[k]) \in StatusSet
                /\ player_node(d, tags[k]) # 0
             THEN Append(acc, descriptor(player_name(d, player_node(d, tags[k])),
                                         status_text(d, tags[k])))
             ELSE acc)

injured_players_of(d, box) == collect(d, status_tags(d, box), 1, <<>>)

\* faulty variant of matchup_key_of: the last two identifiers
matchup_key_last_two(t) ==
    IF Len(t) >= 2 THEN t[Len(t) - 1] \o <<" ","v","s"," ">> \o t[Len(t)]
    ELSE UnknownMatchup

\* matchup_key
matchup_key_of(t) ==
    IF Len(t) >= 2 THEN t[1] \o <<" ","v","s"," ">> \o t[2]
    ELSE UnknownMatchup

\* A report is the dict as the sequence of its items, in insertion order.
Keys(report) == {report[k].key : k \in 1..Len(report)}

\* faulty variant of setitem: the lists of a present key are merged
setitem_extend(report, key, players) ==
    IF key \in Keys(report)
    THEN [k \in 1..Len(report) |->
            IF report[k].key = key
            THEN [key |-> key, players |-> report[k].players \o players]
            ELSE report[k]]
    ELSE Append(report, [key |-> key, players |-> players])

\* injury_report[key] = players: a present key keeps its place and gets
\* the new value, a new key goes to the end
setitem(report, key, players) ==
    IF key \in Keys(report)
    THEN [k \in 1..Len(report) |->
            IF report[k].key = key
            THEN [key |-> key, players |-> players]
            ELSE report[k]]
    ELSE Append(report, [key |-> key, players |-> players])

\* faulty variant of should_insert: the test is missing
always_insert(players) == TRUE

\* if injured_players:
should_insert(players) == players # <<>>

\* any("OUT" in p for p in players)
has_out(players) == \E k \in 1..Len(players) : Contains(OUT, players[k])

\* the matchups scan_live_web prints an alert for, in order
alerts_of(report) ==
    LET hit == SelectSeq(report, LAMBDA e : has_out(e.players))
    IN  [k \in 1..Len(hit) |-> hit[k].key]

\* ------------------------------------------------------------ input pages
\* base with the fragment frag hung under element at (a fragment's parent
\* 0 is the element it is hung under)
Graft(base, frag, at) ==
    base \o [k \in 1..Len(frag) |->
               [frag[k] EXCEPT !.parent = IF @ = 0 THEN at ELSE @ + Len(base)]]

RECURSIVE GraftAll(_, _, _)
GraftAll(base, frags, at) ==
    IF frags = <<>> THEN base
    ELSE GraftAll(Graft(base, Head(frags), at), Tail(frags), at)

TeamAnchor(side, s) == <<Node("a", {"lineup__team", side}, 0, s)>>
TeamAbbr(s) == <<Node("div", {"lineup__team-abbr"}, 0, s)>>

\* <li><a>name</a><span class=cls>status</span></li>
ItemPlayer(name, cls, status) ==
    <<Node("li", {"lineup__player"}, 0, <<>>),
      Node("a", {}, 1, name),
      Node("span", {cls}, 1, status)>>
\* <li><span class=cls>status</span></li>
ItemNoAnchor(cls, status) ==
    <<Node("li", {"lineup__player"}, 0, <<>>), Node("span", {cls}, 1, status)>>
\* <span class=cls>status</span>
BareStatus(cls, status) == <<Node("span", {cls}, 0, status)>>
\* <div><a>name</a><span class=cls>status</span></div>
BlockPlayer(name, cls, status) ==
    <<Node("div", {"lineup__notes"}, 0, <<>>),
      Node("a", {}, 1, name),
      Node("span", {cls}, 1, status)>>

LAL == <<"L","A","L">>
BOS == <<"B","O","S">>
NYR == <<"N","Y","R">>

\* the team elements at the top of a container
NoTeams == <<>>
TwoAnchors ==
    <<TeamAnchor("is-visit", LAL),
      TeamAnchor("is-home", <<" ">> \o BOS \o <<"\n">>)>>
OneAnchorTwoAbbrs == <<TeamAnchor("is-visit", NYR), TeamAbbr(NYR), TeamAbbr(BOS)>>
TwoAbbrs == <<TeamAbbr(LAL), TeamAbbr(BOS)>>
ThreeAnchors ==
    <<TeamAnchor("is-visit", LAL), TeamAnchor("is-home", BOS),
      TeamAnchor("is-home", NYR)>>

\* the player elements below them
NoPlayers == <<>>
GtdThenOut ==
    <<ItemPlayer(<<" ","B","o"," ">>, "lineup__status", <<" ","g","t","d","\n">>),
      ItemPlayer(<<"C","y">>, "lineup__status", <<"Q","u","e","s">>),
      ItemPlayer(<<"A","l">>, "lineup__injuries-status", OUT)>>
NoneQualifies ==
    <<ItemPlayer(<<"C","y">>, "lineup__status", <<"O","U","T","S">>),
      ItemPlayer(<<"E","d">>, "lineup__pos", OUT)>>
NoAnchorThenBare ==
    <<ItemNoAnchor("lineup__status", <<"D","o","u","b","t","f","u","l">>),
      BareStatus("lineup__injuries-status", OUT)>>
BoutGtd == <<ItemPlayer(<<"B","O","U","T">>, "lineup__injuries-status", GTD)>>
BlockOut == <<BlockPlayer(<<"D","i">>, "lineup__status", <<"o","u","t">>)>>

\* one matchup container
Box(header, players) ==
    GraftAll(<<Node("div", {"lineup__box"}, 0, <<>>)>>, header \o players, 1)

Catalogue ==
    { Box(TwoAnchors, GtdThenOut),
      Box(TwoAnchors, NoneQualifies),
      Box(TwoAnchors, BoutGtd),
      Box(TwoAnchors, NoAnchorThenBare),
      Box(TwoAbbrs, BlockOut),
      Box(TwoAbbrs, NoAnchorThenBare),
      Box(OneAnchorTwoAbbrs, GtdThenOut),
      Box(OneAnchorTwoAbbrs, NoPlayers),
      Box(NoTeams, NoAnchorThenBare),
      Box(NoTeams, BlockOut),
      Box(ThreeAnchors, NoAnchorThenBare),
      Box(ThreeAnchors, NoPlayers) }

\* the containers of the pages of a session of several scans
PageCatalogue ==
    { Box(TwoAnchors, GtdThenOut),
      Box(OneAnchorTwoAbbrs, BoutGtd) }

SeqsUpTo(S, n) == UNION {[1..k -> S] : k \in 0..n}

\* a parsed page: the root and its containers
Document(boxes) == GraftAll(<<Node("[document]", {}, 0, <<>>)>>, boxes, 1)

Documents(S, n) == {Document(bs) : bs \in SeqsUpTo(S, n)}

\* the league names a caller passes
Leagues == {NBA, <<"n","h","l">>, <<"M","L","B">>}

\* the status codes a response carries
StatusCodes == {StatusOK, 404, 503}

\* ------------------------------------------------------------------- state
VARIABLES
    pages,            \* what each URL serves
    calls_left,       \* calls of scan_live_web the session still makes
    pc,               \* "idle", "lookup", "loop", "returned", "raised"
    league,           \* the argument of the running call
    url,              \* the URL of the last request
    requests,         \* requests the running call has made
    outcome,          \* how the last fetch_injuries ended
    soup,             \* the parsed page
    lineup_boxes,     \* its containers
    i,                \* the container the loop is at
    teams,            \* the locals of the last iteration
    injured_players,
    matchup_key,
    injury_report,    \* the report under construction
    result,           \* what fetch_injuries returned
    live_injuries,    \* TheEdgeSystem.live_injuries
    alerts,           \* the matchups the last scan printed an alert for
    first             \* per URL, the first report extracted from its page

vars == <<pages, calls_left, pc, league, url, requests, outcome, soup,
          lineup_boxes, i, teams, injured_players, matchup_key, injury_report,
          result, live_injuries, alerts, first>>

NoPage == <<>>

InitLocals ==
    /\ pc = "idle"
    /\ league = <<>>
    /\ url = ""
    /\ requests = 0
    /\ outcome = "none"
    /\ soup = NoPage
    /\ lineup_boxes = <<>>
    /\ i = 0
    /\ teams = <<>>
    /\ injured_players = <<>>
    /\ matchup_key = <<>>
    /\ injury_report = <<>>
    /\ result = <<>>
    /\ live_injuries = <<>>
    /\ alerts = <<>>
    /\ first = [u \in Urls |-> <<>>]

\* one call on any page of up to MaxBoxes containers
InitOneCall ==
    /\ \E d \in Documents(Catalogue, MaxBoxes) :
          pages = [u \in Urls |-> IF u = NbaUrl THEN d ELSE Document(<<>>)]
    /\ calls_left = 1

\* a session of MaxScans calls on two pages
InitSession ==
    /\ pages \in [Urls -> Documents(PageCatalogue, MaxPageBoxes)]
    /\ calls_left = MaxScans

Init == InitLocals /\ (InitOneCall \/ InitSession)

\* ----------------------------------------------------------- fetch_injuries
\* the statements the try block covers: the request and the whole
\* parse-and-extract pass, but not the URL lookup before it
in_try(point) == point \in {"request", "extract"}

\* faulty variant of handler: what was collected is returned
handler_partial(partial) == partial

\* except Exception: return {}
handler(partial) == <<>>

\* faulty variant of new_report: the report of the scan before is reused
stale_report == live_injuries

\* injury_report = {}
new_report == <<>>

\* faulty variant of assign: an empty report does not replace the old one
assign_keep_last_good(old, new) == IF new = <<>> THEN old ELSE new

\* self.live_injuries = <the returned report>
assign(old, new) == new

ClearLocals ==
    /\ soup' = NoPage
    /\ lineup_boxes' = <<>>
    /\ i' = 0
    /\ teams' = <<>>
    /\ injured_players' = <<>>
    /\ matchup_key' = <<>>
    /\ UNCHANGED injury_report

\* edge.scan_live_web(league): the call of fetch_injuries
scan_live_web_call(lg) ==
    /\ pc = "idle"
    /\ calls_left > 0
    /\ calls_left' = calls_left - 1
    /\ league' = lg
    /\ outcome' = "running"
    /\ requests' = 0
    /\ alerts' = <<>>
    /\ pc' = "lookup"
    /\ UNCHANGED <<pages, url, soup, lineup_boxes, i, teams,
                   injured_players, matchup_key, injury_report, result,
                   live_injuries, first>>

\* the league has no URL: the empty report, and no request
fetch_unsupported ==
    /\ pc = "lookup"
    /\ urls_get(upper(league)) = ""
    /\ result' = <<>>
    /\ outcome' = "unsupported"
    /\ pc' = "returned"
    /\ UNCHANGED <<pages, calls_left, league, url, requests, soup,
                   lineup_boxes, i, teams, injured_players, matchup_key,
                   injury_report, alerts, live_injuries, first>>

\* an exception leaves the statement at point: the handler's report when
\* the try block covers it, the caller's problem otherwise (the frame's
\* locals are dropped; injury_report is kept until the caller goes on)
Raise(point, kind) ==
    /\ outcome' = kind
    /\ IF in_try(point)
       THEN result' = handler(injury_report) /\ pc' = "returned"
       ELSE result' = result /\ pc' = "raised"
    /\ ClearLocals

\* requests.get or the parser raises
fetch_request_raises ==
    /\ pc = "lookup"
    /\ urls_get(upper(league)) # ""
    /\ url' = urls_get(upper(league))
    /\ requests' = requests + 1
    /\ Raise("request", "fetch_exception")
    /\ UNCHANGED <<pages, calls_left, league, alerts, live_injuries, first>>

\* the response is not a 200
fetch_bad_status(code) ==
    /\ pc = "lookup"
    /\ urls_get(upper(league)) # ""
    /\ code # StatusOK
    /\ url' = urls_get(upper(league))
    /\ requests' = requests + 1
    /\ result' = <<>>
    /\ outcome' = "bad_status"
    /\ pc' = "returned"
    /\ UNCHANGED <<pages, calls_left, league, soup, lineup_boxes, i, teams,
                   injured_players, matchup_key, injury_report, alerts,
                   live_injuries, first>>

\* a 200: the page is parsed and its containers are found
fetch_parse(code) ==
    /\ pc = "lookup"
    /\ urls_get(upper(league)) # ""
    /\ code = StatusOK
    /\ url' = urls_get(upper(league))
    /\ requests' = requests + 1
    /\ soup' = pages[urls_get(upper(league))]
    /\ lineup_boxes' = find_boxes(pages[urls_get(upper(league))])
    /\ injury_report' = new_report
    /\ i' = 1
    /\ pc' = "loop"
    /\ UNCHANGED <<pages, calls_left, league, outcome, teams, injured_players,
                   matchup_key, result, alerts, live_injuries, first>>

\* one iteration of the loop over the containers
process_box ==
    /\ pc = "loop"
    /\ i <= Len(lineup_boxes)
    /\ teams' = teams_of(soup, lineup_boxes[i])
    /\ injured_players' = injured_players_of(soup, lineup_boxes[i])
    /\ matchup_key' = matchup_key_of(teams')
    /\ injury_report' =
          IF should_insert(injured_players')
          THEN setitem(injury_report, matchup_key', injured_players')
          ELSE injury_report
    /\ i' = i + 1
    /\ UNCHANGED <<pages, calls_left, pc, league, url, requests, outcome, soup,
                   lineup_boxes, result, alerts, live_injuries, first>>

\* an exception anywhere in the pass
extract_raises ==
    /\ pc = "loop"
    /\ Raise("extract", "extract_exception")
    /\ UNCHANGED <<pages, calls_left, league, url, requests, alerts,
                   live_injuries, first>>

\* return injury_report
fetch_return ==
    /\ pc = "loop"
    /\ i > Len(lineup_boxes)
    /\ result' = injury_report
    /\ outcome' = "ok"
    /\ pc' = "returned"
    /\ first' = IF first[url] = <<>>
                THEN [first EXCEPT ![url] = <<injury_report>>]
                ELSE first
    /\ ClearLocals
    /\ UNCHANGED <<pages, calls_left, league, url, requests, alerts,
                   live_injuries>>

\* ------------------------------------------------------------ scan_live_web
\* the rest of scan_live_web: keep the report and print the alerts
scan_live_web_finish ==
    /\ pc = "returned"
    /\ live_injuries' = assign(live_injuries, result)
    /\ alerts' = IF live_injuries' = <<>> THEN <<>>
                 ELSE alerts_of(live_injuries')
    /\ injury_report' = <<>>
    /\ pc' = "idle"
    /\ UNCHANGED <<pages, calls_left, league, url, requests, outcome, soup,
                   lineup_boxes, i, teams, injured_players, matchup_key,
                   result, first>>

Next ==
    \/ \E lg \in Leagues : scan_live_web_call(lg)
    \/ fetch_unsupported
    \/ fetch_request_raises
    \/ \E code \in StatusCodes : fetch_bad_status(code)
    \/ \E code \in StatusCodes : fetch_parse(code)
    \/ process_box
    \/ extract_raises
    \/ fetch_return
    \/ scan_live_web_finish

Spec == Init /\ [][Next]_vars

\* ------------------------------------------------------------------ claims
\* What the claims say of a page, stated on the elements themselves.

\* the page of the last request
Page == pages[url]

\* the containers of a page
Containers(d) ==
    SelectSeq(Indices(d),
              LAMBDA m : d[m].tag = "div" /\ "lineup__box" \in d[m].class)

\* the status elements of a container
StatusElements(d, box) ==
    SelectSeq(Indices(d),
              LAMBDA m : /\ IsDescendant(d, m, box)
                         /\ d[m].tag = "span"
                         /\ \/ "lineup__injuries-status" \in d[m].class
                            \/ "lineup__status" \in d[m].class)

\* the element's trimmed, uppercased text is OUT, GTD or DOUBTFUL
Qualifies(d, m) == upper(strip(text(d, m))) \in {OUT, GTD, DOUBTFUL}

QualifyingElements(d, box) ==
    SelectSeq(StatusElements(d, box), LAMBDA m : Qualifies(d, m))

HasInjury(d, box) == QualifyingElements(d, box) # <<>>

\* the elements of the primary and of the secondary selector
Primary(d, box) ==
    SelectSeq(Indices(d),
              LAMBDA m : /\ IsDescendant(d, m, box)
                         /\ d[m].tag = "a"
                         /\ "lineup__team" \in d[m].class)

Secondary(d, box) ==
    SelectSeq(Indices(d),
              LAMBDA m : /\ IsDescendant(d, m, box)
                         /\ d[m].tag = "div"
                         /\ "lineup__team-abbr" \in d[m].class)

\* the team identifiers resolved in a container
Resolved(d, box) ==
    LET from == IF Len(Primary(d, box)) > 0 THEN Primary(d, box)
                ELSE Secondary(d, box)
    IN  [k \in 1..Len(from) |-> strip(text(d, from[k]))]

\* "A vs B" of the first two, or the sentinel
Label(ids) ==
    IF Len(ids) < 2 THEN UnknownMatchup
    ELSE ids[1] \o <<" ","v","s"," ">> \o ids[2]

\* the container the loop has just handled
Handled == pc = "loop" /\ i > 1
Current == lineup_boxes[i - 1]

\* fetch_injuries has returned the report of the whole page
Extracted == pc = "returned" /\ outcome = "ok"

\* C1: a container with resolved identifiers A, B, ... gets the key
\* "A vs B" of the first two, a container with fewer than two gets
\* "Unknown Matchup", and when one of its status elements qualifies the
\* key is in the report, under construction and returned.
C1_MatchupKey ==
    /\ Handled =>
          /\ matchup_key = Label(teams)
          /\ Len(teams) >= 2 =>
                matchup_key = teams[1] \o <<" ","v","s"," ">> \o teams[2]
          /\ Len(teams) < 2 => matchup_key = UnknownMatchup
          /\ HasInjury(soup, Current) => matchup_key \in Keys(injury_report)
    /\ Extracted =>
          \A k \in 1..Len(Containers(Page)) :
              HasInjury(Page, Containers(Page)[k]) =>
                  Label(Resolved(Page, Containers(Page)[k])) \in Keys(result)

\* C1 witness: three identifiers are resolved, a status element
\* qualifies, and the key of the first two is in the report
C1_Witness ==
    /\ Handled
    /\ Len(teams) = 3
    /\ HasInjury(soup, Current)
    /\ matchup_key = LAL \o <<" ","v","s"," ">> \o BOS
    /\ matchup_key \in Keys(injury_report)

\* C2: no key of the report maps to an empty list; the keys returned are
\* labels of containers with a qualifying status element, so a page
\* without such a container yields the empty report.
C2_NoEmptyLists ==
    /\ \A k \in 1..Len(injury_report) : injury_report[k].players # <<>>
    /\ \A k \in 1..Len(result) : result[k].players # <<>>
    /\ Extracted =>
          /\ Keys(result) \subseteq
                {Label(Resolved(Page, Containers(Page)[k])) :
                    k \in {j \in 1..Len(Containers(Page)) :
                              HasInjury(Page, Containers(Page)[j])}}
          /\ (\A k \in 1..Len(Containers(Page)) :
                  ~HasInjury(Page, Containers(Page)[k])) => result = <<>>

\* C2 witness: a page whose containers have status elements, none of
\* which qualifies, has been extracted to the empty report
C2_Witness ==
    /\ Extracted
    /\ Len(Containers(Page)) = 2
    /\ \A k \in 1..Len(Containers(Page)) :
          /\ StatusElements(Page, Containers(Page)[k]) # <<>>
          /\ ~HasInjury(Page, Containers(Page)[k])
    /\ result = <<>>

\* the descriptors of the status elements from the k-th on: one
\* "<name> (<STATUS>)" for each that qualifies, none for the others
RECURSIVE Descriptors(_, _, _)
Descriptors(d, elements, k) ==
    IF k > Len(elements) THEN <<>>
    ELSE (IF Qualifies(d, elements[k])
          THEN <<player_name(d, player_node(d, elements[k]))
                 \o <<" ","(">> \o upper(strip(text(d, elements[k])))
                 \o <<")">> >>
          ELSE <<>>)
         \o Descriptors(d, elements, k + 1)

\* C3: the injury list of a container is, in the order of its status
\* elements, one descriptor "<name> (<STATUS>)" with the status in upper
\* case for each element that qualifies in any letter case, and nothing
\* for the others.
C3_Descriptors ==
    Handled =>
        injured_players = Descriptors(soup, StatusElements(soup, Current), 1)

\* C3 witness: of three status elements " gtd\n", "Ques" and "OUT" the
\* first and the last have given their descriptors, in that order
C3_Witness ==
    /\ Handled
    /\ Len(StatusElements(soup, Current)) = 3
    /\ injured_players =
          << <<"B","o"," ","(","G","T","D",")">>,
             <<"A","l"," ","(","O","U","T",")">> >>

\* the player name of a status element
NameOf(d, m) ==
    LET item == find_parent(d, m, "li")
        block == find_parent(d, m, "div")
        node == IF item # 0 THEN item ELSE block
    IN  IF node = 0 \/ find(d, node, "a") = 0 THEN Unknown
        ELSE strip(text(d, find(d, node, "a")))

\* C4: every qualifying status element has its descriptor, whose name is
\* the anchor of the nearest list-item ancestor, or of the nearest block
\* ancestor when there is no list-item ancestor, or "Unknown" when there
\* is no such ancestor or no anchor in it.
C4_PlayerName ==
    Handled =>
        LET q == QualifyingElements(soup, Current)
        IN  /\ Len(injured_players) = Len(q)
            /\ \A k \in 1..Len(q) :
                  injured_players[k] =
                      NameOf(soup, q[k]) \o <<" ","(">>
                      \o upper(strip(text(soup, q[k]))) \o <<")">>

\* C4 witness: a list item without an anchor, in a container that has
\* anchors, has given "Unknown (DOUBTFUL)", and a status element outside
\* any list item the name of the first anchor of the container
C4_Witness ==
    /\ Handled
    /\ Primary(soup, Current) # <<>>
    /\ injured_players =
          << Unknown \o <<" ","(">> \o DOUBTFUL \o <<")">>,
             LAL \o <<" ","(">> \o OUT \o <<")">> >>

\* C5: fetch_injuries returns to its caller whatever happens; after a
\* status other than 200 or an exception in the request or in the pass
\* it returns the empty report, whatever was collected, and for an
\* unsupported league it returns the empty report without a request.
C5_NeverRaises ==
    /\ pc # "raised"
    /\ pc = "returned" /\ outcome # "ok" => result = <<>>
    /\ pc = "returned" /\ outcome = "unsupported" => requests = 0

\* C5 witness: the pass raised with entries collected, and the empty
\* report is returned
C5_Witness ==
    /\ pc = "returned"
    /\ outcome = "extract_exception"
    /\ injury_report # <<>>
    /\ result = <<>>

\* C6: after a scan, live_injuries is the report that scan's
\* fetch_injuries returned: empty after a failed scan, and with no key
\* that is not a label of the page just scanned.
C6_ReplacesReport ==
    pc = "idle" /\ outcome # "none" =>
        /\ live_injuries = result
        /\ outcome # "ok" => live_injuries = <<>>
        /\ outcome = "ok" => Keys(live_injuries) \subseteq
              {Label(Resolved(Page, Containers(Page)[k])) :
                  k \in 1..Len(Containers(Page))}

\* C6 witness: a scan that found injuries was followed by a failed scan,
\* and live_injuries is empty
C6_Witness ==
    /\ pc = "idle"
    /\ outcome \notin {"ok", "none"}
    /\ \E u \in Urls : first[u] # <<>> /\ first[u][1] # <<>>
    /\ live_injuries = <<>>

\* the descriptor's status is OUT
StatusIsOut(p) ==
    Len(p) >= 6 /\ SubSeq(p, Len(p) - 5, Len(p)) = <<" ","(">> \o OUT \o <<")">>

\* C7: the alert of a matchup is printed if and only if one of its
\* descriptors has status OUT, whatever the player names are.
C7_AlertIffOut ==
    pc = "idle" /\ outcome = "ok" =>
        \A k \in 1..Len(live_injuries) :
            (\E j \in 1..Len(alerts) : alerts[j] = live_injuries[k].key)
            <=> (\E j \in 1..Len(live_injuries[k].players) :
                    StatusIsOut(live_injuries[k].players[j]))

\* the last container with an injury that has the label key, 0 if none
LastWith(d, key) ==
    LET c == Containers(d)
        hits == {k \in 1..Len(c) :
                    HasInjury(d, c[k]) /\ Label(Resolved(d, c[k])) = key}
    IN  IF hits = {} THEN 0
        ELSE c[CHOOSE k \in hits : \A j \in hits : j <= k]

\* C8: the report has one entry for a label, and its list is the injury
\* list of the last container with that label that has an injury.
C8_LastWriteWins ==
    Extracted =>
        /\ \A j, k \in 1..Len(result) :
              result[j].key = result[k].key => j = k
        /\ \A k \in 1..Len(result) :
              /\ LastWith(Page, result[k].key) # 0
              /\ result[k].players =
                    Descriptors(Page,
                        StatusElements(Page, LastWith(Page, result[k].key)), 1)

\* C8 witness: two containers with the same label and different injury
\* lists, and the report holds the list of the second alone
C8_Witness ==
    /\ Extracted
    /\ Len(Containers(Page)) = 2
    /\ \A k \in 1..2 : HasInjury(Page, Containers(Page)[k])
    /\ Label(Resolved(Page, Containers(Page)[1]))
          = Label(Resolved(Page, Containers(Page)[2]))
    /\ Descriptors(Page, StatusElements(Page, Containers(Page)[1]), 1)
          # Descriptors(Page, StatusElements(Page, Containers(Page)[2]), 1)
    /\ Len(result) = 1
    /\ result[1].players
          = Descriptors(Page, StatusElements(Page, Containers(Page)[2]), 1)

C10_OneSelector ==
    Handled =>
        /\ Len(Primary(soup, Current)) > 0 =>
              teams = [k \in 1..Len(Primary(soup, Current)) |->
                          strip(text(soup, Primary(soup, Current)[k]))]
        /\ Len(Primary(soup, Current)) = 0 =>
              teams = [k \in 1..Len(Secondary(soup, Current)) |->
                          strip(text(soup, Secondary(soup, Current)[k]))]
        /\ Len(Primary(soup, Current)) = 1 => matchup_key = UnknownMatchup

\* C10 witness: the primary selector finds one element and the secondary
\* two, and the container with its injuries is filed under the sentinel
C10_Witness ==
    /\ Handled
    /\ Len(Primary(soup, Current)) = 1
    /\ Len(Secondary(soup, Current)) = 2
    /\ injured_players # <<>>
    /\ teams = <<NYR>>
    /\ UnknownMatchup \in Keys(injury_report)

====
